---- MODULE Spec2Model ----
(***************************************************************************)
(* Model of src/transcribe.ts (class TranscriptionEngine): the two         *)
(* transcription backends, their poll timers, the result formatter and the *)
(* segment renderer.                                                       *)
(*                                                                         *)
(* Text is a sequence of tokens; a token is a one-character string or a    *)
(* fixed literal of the source ("## Transcript", a message).  The newline  *)
(* is always the token "\n", so String.slice(-1) is the last token.        *)
(***************************************************************************)
EXTENDS Integers, Sequences, FiniteSets, TLC

(***************************************************************************)
(* Program constants                                                       *)
(***************************************************************************)
MAX_TRIES == 100

CREATE_OK == 10000

QUERY_DONE == 11000

QUERY_WAITING == 11001

HOUR == 3600

(***************************************************************************)
(* Bounds of the model                                                     *)
(***************************************************************************)
\* poll requests of one job that may be awaiting their response at once
MaxInFlight == 2

\* number of onProgress events the upload reports before it completes
UploadChunks == 2

NL == "\n"

(***************************************************************************)
(* Text helpers (String.prototype.trim, Array.prototype.join, slice(-1))   *)
(***************************************************************************)
IsSpace(c) == c \in {" ", NL}

RECURSIVE TrimLeft(_)
TrimLeft(s) ==
    IF s # <<>> /\ IsSpace(Head(s)) THEN TrimLeft(Tail(s)) ELSE s

RECURSIVE TrimRight(_)
TrimRight(s) ==
    IF s # <<>> /\ IsSpace(s[Len(s)])
    THEN TrimRight(SubSeq(s, 1, Len(s) - 1))
    ELSE s

Trim(s) == TrimRight(TrimLeft(s))

\* Array.join(sep) over an array of texts: sep between, not after, elements
RECURSIVE Join(_, _)
Join(texts, sep) ==
    IF texts = <<>> THEN <<>>
    ELSE IF Len(texts) = 1 THEN texts[1]
    ELSE texts[1] \o sep \o Join(Tail(texts), sep)

EnsureNewlineNever(text) == text

\* if (transcript_text.slice(-1) !== "\n") transcript_text += "\n"
EnsureNewline(text) ==
    IF text = <<>> \/ text[Len(text)] # NL THEN text \o <<NL>> ELSE text

Max(a, b) == IF a >= b THEN a ELSE b

(***************************************************************************)
(* segmentsToTimestampedString                                             *)
(***************************************************************************)
Digits == <<"0", "1", "2", "3", "4", "5", "6", "7", "8", "9">>

Pad2(n) == <<Digits[(n \div 10) + 1], Digits[(n % 10) + 1]>>

\* date-fns format(date, pattern) of the local wall-clock fields of an
\* instant; localSeconds is the instant shifted to local time.
FormatDate(localSeconds, pattern) ==
    LET ss == localSeconds % 60
        mm == (localSeconds \div 60) % 60
        hh == (localSeconds \div HOUR) % 24
    IN  IF pattern = "mm:ss"
        THEN Pad2(mm) \o <<":">> \o Pad2(ss)
        ELSE Pad2(hh) \o <<":">> \o Pad2(mm) \o <<":">> \o Pad2(ss)

\* new Date(t * 1000), then new Date(d.getTime() + d.getTimezoneOffset() *
\* 60000), then format(), which prints local fields: local = UTC - offset.
\* tz is getTimezoneOffset() in minutes.
RenderTime(t, pattern, tz) ==
    LET shifted == t + tz * 60
        localSeconds == shifted - tz * 60
    IN  FormatDate(localSeconds, pattern)

RECURSIVE MaxDuration(_)
MaxDuration(segments) ==
    IF segments = <<>> THEN 0
    ELSE Max(segments[Len(segments)].end,
             MaxDuration(SubSeq(segments, 1, Len(segments) - 1)))

AutoFormat(segments) ==
    IF MaxDuration(segments) < HOUR THEN "mm:ss" ELSE "HH:mm:ss"

RECURSIVE renderSegments(_, _, _)
renderSegments(segments, formatToUse, tz) ==
    IF segments = <<>> THEN <<>>
    ELSE LET segment == Head(segments)
         IN  RenderTime(segment.start, formatToUse, tz) \o <<" - ">>
             \o RenderTime(segment.end, formatToUse, tz) \o <<": ">>
             \o Trim(segment.text) \o <<NL>>
             \o renderSegments(Tail(segments), formatToUse, tz)

RECURSIVE groupSegmentsLastEnd(_, _, _)
groupSegmentsLastEnd(segments, interval, grouped) ==
    IF segments = <<>> THEN grouped
    ELSE LET segment == Head(segments)
             intervalStart == (segment.start \div interval) * interval
             next ==
                IF intervalStart \notin DOMAIN grouped
                THEN [k \in DOMAIN grouped \cup {intervalStart} |->
                        IF k = intervalStart
                        THEN [start |-> segment.start, end |-> segment.end,
                              texts |-> <<segment.text>>]
                        ELSE grouped[k]]
                ELSE [grouped EXCEPT
                        ![intervalStart].end = segment.end,
                        ![intervalStart].texts = Append(@, segment.text)]
         IN  groupSegmentsLastEnd(Tail(segments), interval, next)

\* groupedSegments after the forEach: a function from the interval starts
\* that occur to [start, end, texts]
RECURSIVE groupSegments(_, _, _)
groupSegments(segments, interval, grouped) ==
    IF segments = <<>> THEN grouped
    ELSE LET segment == Head(segments)
             intervalStart == (segment.start \div interval) * interval
             next ==
                IF intervalStart \notin DOMAIN grouped
                THEN [k \in DOMAIN grouped \cup {intervalStart} |->
                        IF k = intervalStart
                        THEN [start |-> segment.start, end |-> segment.end,
                              texts |-> <<segment.text>>]
                        ELSE grouped[k]]
                ELSE [grouped EXCEPT
                        ![intervalStart].end = Max(@, segment.end),
                        ![intervalStart].texts = Append(@, segment.text)]
         IN  groupSegments(Tail(segments), interval, next)

\* Object.values of an object with integer-like keys: ascending key order
RECURSIVE ObjectValues(_)
ObjectValues(grouped) ==
    IF DOMAIN grouped = {} THEN <<>>
    ELSE LET k == CHOOSE x \in DOMAIN grouped :
                    \A y \in DOMAIN grouped : x <= y
             rest == [j \in DOMAIN grouped \ {k} |-> grouped[j]]
         IN  <<grouped[k]>> \o ObjectValues(rest)

bucketedSegments(segments, interval) ==
    LET groups == ObjectValues(groupSegments(segments, interval, <<>>))
    IN  [i \in 1..Len(groups) |->
            [start |-> groups[i].start, end |-> groups[i].end,
             text |-> Trim(Join(groups[i].texts, <<>>))]]

segmentsToTimestampedString(segments, timestampFormat, interval, tz) ==
    LET formatToUse == IF timestampFormat = "auto"
                       THEN AutoFormat(segments) ELSE timestampFormat
    IN  IF interval > 0
        THEN renderSegments(bucketedSegments(segments, interval),
                            formatToUse, tz)
        ELSE renderSegments(segments, formatToUse, tz)

(***************************************************************************)
(* formatSwiftinkResults                                                   *)
(***************************************************************************)
INSUFFICIENT == <<"Insufficient information for a summary.">>

fmtTranscript(transcript, st, tz) ==
    EnsureNewline(
        <<"## Transcript", NL>> \o
        (IF st.timestamps
         THEN segmentsToTimestampedString(transcript.text_segments,
                                          st.timestampFormat, 0, tz)
         ELSE transcript.text))

fmtSummaryNoSentinel(text, transcript, st) ==
    EnsureNewline(
        IF st.embedSummary /\ transcript.summary # <<>>
        THEN text \o <<"## Summary", NL>> \o transcript.summary
        ELSE text)

fmtSummary(text, transcript, st) ==
    EnsureNewline(
        IF st.embedSummary /\ transcript.summary # <<>>
           /\ transcript.summary # INSUFFICIENT
        THEN text \o <<"## Summary", NL>> \o transcript.summary
        ELSE text)

fmtOutline(text, transcript, st, tz) ==
    EnsureNewline(
        IF st.embedOutline /\ Len(transcript.heading_segments) > 0
        THEN text \o <<"## Outline", NL>> \o
             segmentsToTimestampedString(transcript.heading_segments,
                                         st.timestampFormat, 0, tz)
        ELSE text)

fmtKeywords(text, transcript, st) ==
    EnsureNewline(
        IF st.embedKeywords /\ Len(transcript.keywords) > 0
        THEN text \o <<"## Keywords", NL>> \o
             Join([i \in 1..Len(transcript.keywords) |->
                      <<transcript.keywords[i]>>], <<", ">>)
        ELSE text)

fmtLink(text, transcript, st) ==
    IF st.embedAdditionalFunctionality
    THEN text \o <<"[...](obsidian://swiftink_transcript_functions?id=",
                   transcript.id, ")">>
    ELSE text

formatSwiftinkResults(transcript, st, tz) ==
    fmtLink(
        fmtKeywords(
            fmtOutline(
                fmtSummary(fmtTranscript(transcript, st, tz), transcript, st),
                transcript, st, tz),
            transcript, st),
        transcript, st)

(***************************************************************************)
(* getTranscription: the table of backends and the then-callback           *)
(***************************************************************************)
\* variant: the two entries of the table are exchanged
transcription_enginesSwapped(name) ==
    IF name = "swiftink" THEN "getTranscriptionWhisperASR"
    ELSE "getTranscriptionSwiftink"

\* transcription_engines[name], for the two keys of the table
transcription_engines(name) ==
    IF name = "swiftink" THEN "getTranscriptionSwiftink"
    ELSE "getTranscriptionWhisperASR"

\* (transcription) => { ...; return transcription; }
onFulfilled(transcription) == transcription

needsNewNoticeAlways(handle) == TRUE

TickFiresSerialized(timer, pending) == timer = "active" /\ pending = 0

\* setInterval(callback, 3000): the callback runs at every tick until
\* clearInterval, whatever the requests of earlier ticks are doing
TickFires(timer, pending) == timer = "active"

\* if (!uploadProgressNotice), if (!transcriptionProgressNotice)
needsNewNotice(handle) == handle = "null"

(***************************************************************************)
(* Decisions of the two backends, as the code takes them                   *)
(***************************************************************************)
\* variant: only `session == null` is tested
SessionAbsentDataOnly(session) == session = "dataNull"

\* if (session == null || session.session == null)
SessionAbsent(session) == session \in {"dataNull", "sessionNull"}

\* variant: the set is never narrowed
completed_statuses_unnarrowed(st) == {"transcribed", "complete"}

\* completed_statuses, narrowed when a summary, outline or keywords are asked
completed_statuses(st) ==
    IF st.embedSummary \/ st.embedOutline \/ st.embedKeywords
    THEN {"complete"}
    ELSE {"transcribed", "complete"}

\* variant: the attempt cap is tested before the failure statuses
PollBranchCapBeforeFailed(status, tries, completed) ==
    IF status \in completed THEN "completed"
    ELSE IF tries > MAX_TRIES THEN "timeout"
    ELSE IF status = "failed" THEN "failed"
    ELSE IF status = "validation_failed" THEN "validation_failed"
    ELSE "continue"

\* variant: the attempt cap is tested first and counts the current attempt
PollBranchCapFirst(status, tries, completed) ==
    IF tries + 1 >= MAX_TRIES THEN "timeout"
    ELSE IF status \in completed THEN "completed"
    ELSE IF status = "failed" THEN "failed"
    ELSE IF status = "validation_failed" THEN "validation_failed"
    ELSE "continue"

\* the if / else-if chain of the poll callback, in the order of the code
PollBranch(status, tries, completed) ==
    IF status \in completed THEN "completed"
    ELSE IF status = "failed" THEN "failed"
    ELSE IF status = "validation_failed" THEN "validation_failed"
    ELSE IF tries > MAX_TRIES THEN "timeout"
    ELSE "continue"

\* if (responseJSON.code == 10000) of the create response
CreateAccepted(response) == response.code = CREATE_OK

\* variant: the still-processing code is not recognised
QueryBranchNoWaiting(code) ==
    IF code = QUERY_DONE THEN "done" ELSE "error"

\* the if / else-if chain on the code of a query response
QueryBranch(code) ==
    IF code = QUERY_DONE THEN "done"
    ELSE IF code = QUERY_WAITING THEN "waiting"
    ELSE "error"

\* sentencesJSON.sentences.map((s) => s.s).join(' ')
joinSentences(sentences) == Join(sentences, <<" ">>)

(***************************************************************************)
(* Values the environment supplies                                         *)
(***************************************************************************)
NullTranscript ==
    [id |-> "", name |-> "", status |-> "null", text |-> <<>>,
     text_segments |-> <<>>, summary |-> <<>>, heading_segments |-> <<>>,
     keywords |-> <<>>]

TranscriptA ==
    [id |-> "t1", name |-> "rec.mp3", status |-> "processing",
     text |-> <<"a">>,
     text_segments |-> <<[start |-> 0, end |-> 65, text |-> <<"a", " ">>]>>,
     summary |-> <<"s">>,
     heading_segments |-> <<[start |-> 0, end |-> 65, text |-> <<"h">>]>>,
     keywords |-> <<"k", "w">>]

TranscriptB ==
    [id |-> "t1", name |-> "rec.mp3", status |-> "processing",
     text |-> <<"b", NL>>,
     text_segments |-> <<[start |-> 70, end |-> 3600, text |-> <<"b">>]>>,
     summary |-> INSUFFICIENT,
     heading_segments |-> <<>>,
     keywords |-> <<>>]

Bodies == {TranscriptA, TranscriptB}

Statuses ==
    {"processing", "transcribed", "complete", "failed", "validation_failed"}

\* the bodies a GET /transcripts/{id} may answer with
PollResponses == {[b EXCEPT !.status = s] : b \in Bodies, s \in Statuses}

SessionResults == {"dataNull", "sessionNull", "session"}

Messages == {"msg1", "msg2"}

\* the bodies of the create response of Backend A; wellFormed = JSON.parse
\* succeeds; taskId "undefined" = the field is missing
CreateResponses ==
    {[wellFormed |-> FALSE, code |-> 0, taskId |-> "undefined", msg |-> ""]}
    \cup {[wellFormed |-> TRUE, code |-> CREATE_OK, taskId |-> t, msg |-> ""] :
            t \in {"task1", "undefined"}}
    \cup {[wellFormed |-> TRUE, code |-> CREATE_OK + 1, taskId |-> "undefined",
           msg |-> m] : m \in Messages}

\* the bodies of a query response of Backend A; resultOk = the nested
\* JSON.parse(responseJSON.result) succeeds
QueryResponses ==
    {[wellFormed |-> FALSE, code |-> 0, resultOk |-> FALSE,
      sentences |-> <<>>, msg |-> ""]}
    \cup {[wellFormed |-> TRUE, code |-> QUERY_DONE, resultOk |-> TRUE,
           sentences |-> x, msg |-> ""] :
            x \in {<<>>, << <<"a">> >>, << <<"a">>, <<"b", "c">> >>}}
    \cup {[wellFormed |-> TRUE, code |-> QUERY_DONE, resultOk |-> FALSE,
           sentences |-> <<>>, msg |-> ""]}
    \cup {[wellFormed |-> TRUE, code |-> QUERY_WAITING, resultOk |-> FALSE,
           sentences |-> <<>>, msg |-> ""]}
    \cup {[wellFormed |-> TRUE, code |-> QUERY_WAITING + 1,
           resultOk |-> FALSE, sentences |-> <<>>, msg |-> m] :
            m \in Messages}

NullCreateResponse ==
    [wellFormed |-> FALSE, code |-> 0, taskId |-> "undefined", msg |-> ""]

NullQueryResponse ==
    [wellFormed |-> FALSE, code |-> 0, resultOk |-> FALSE, sentences |-> <<>>,
     msg |-> ""]

\* the settings a job runs under
JobSettings ==
    [transcriptionEngine : {"swiftink", "whisper_asr"},
     embedSummary : BOOLEAN, embedOutline : BOOLEAN, embedKeywords : BOOLEAN,
     embedAdditionalFunctionality : {TRUE},
     timestamps : {FALSE},
     timestampFormat : {"auto"}]

(***************************************************************************)
(* State                                                                   *)
(***************************************************************************)
VARIABLES
    settings,       \* this.settings, read-only during a job
    timezoneOffset, \* Date.getTimezoneOffset() of the host, minutes
    pc,             \* where the backend function is suspended
    session,        \* Backend B: const session, the data of getSession()
    promise,        \* the promise the backend returns: [state, value]
    inflight,       \* poll / query requests awaiting their response
    poll,           \* Backend B: the setInterval handle `poll`
    intervalID,     \* Backend A: the setInterval handle `intervalID`
    tries,          \* Backend B: let tries
    transcript,     \* Backend B: let transcript
    taskId,         \* Backend A: let taskId
    createResponse, \* Backend A: the body of the create response
    lastQuery,      \* Backend A: the body of the last query response, and a
                    \* bit that flips whenever a query response is handled
    bytesUploaded,  \* Backend B: progress of the tus upload, in chunks
    uploadProgressNotice,        \* "null", "shown" or "hidden"
    transcriptionProgressNotice, \* "null", "shown" or "hidden"
    issued,         \* requests the job has issued so far (kinds)
    clearCalls,     \* number of clearInterval calls
    settleCalls,    \* number of resolve / reject calls
    lastSettle,     \* the last resolve / reject call: [state, value]
    sawTerminal,    \* Backend B: some poll response took a terminal branch
    overlapped,     \* two poll requests were in flight at the same time
    faults,         \* failures the environment has injected (kinds)
    transcriptionEngine, \* this.transcriptionEngine, the backend selected
    invocations,    \* number of calls of a backend function
    result,         \* the promise getTranscription returns: [state, value]
    completed,      \* Backend B: awaited steps that returned successfully
    queryCodes,     \* Backend A: codes of the parsed query responses handled
    noticesCreated, \* progress Notice objects constructed, per handle
    input,          \* argument of a pure function under test
    output,         \* its value, once applied
    groupedSegments \* segmentsToTimestampedString: the record of buckets

vars ==
    <<settings, timezoneOffset, pc, session, createResponse, lastQuery,
      promise, inflight, poll, intervalID,
      tries, transcript, taskId, bytesUploaded, uploadProgressNotice,
      transcriptionProgressNotice, issued, clearCalls, settleCalls,
      lastSettle, sawTerminal, overlapped, faults, transcriptionEngine,
      invocations, result, completed, queryCodes, noticesCreated, input,
      output, groupedSegments>>

\* never written by a job
envVars == <<settings, timezoneOffset, input, output, groupedSegments>>

\* written by getTranscription only
callVars == <<transcriptionEngine, invocations>>

Pending == [state |-> "pending", value |-> <<>>]

\* the state of a job before getTranscription is called
JobStart ==
    /\ pc = "idle"
    /\ session = "unset"
    /\ createResponse = NullCreateResponse
    /\ lastQuery = [flip |-> FALSE, response |-> NullQueryResponse]
    /\ promise = Pending
    /\ inflight = 0
    /\ poll = "unset"
    /\ intervalID = "unset"
    /\ tries = 0
    /\ transcript = NullTranscript
    /\ taskId = "unset"
    /\ bytesUploaded = 0
    /\ uploadProgressNotice = "null"
    /\ transcriptionProgressNotice = "null"
    /\ issued = {}
    /\ clearCalls = 0
    /\ settleCalls = 0
    /\ lastSettle = Pending
    /\ sawTerminal = FALSE
    /\ overlapped = FALSE
    /\ faults = {}
    /\ transcriptionEngine = "unset"
    /\ invocations = 0
    /\ result = Pending
    /\ completed = {}
    /\ queryCodes = {}
    /\ noticesCreated = [upload |-> 0, transcription |-> 0]

NoInput == [kind |-> "none"]

Init ==
    /\ settings \in JobSettings
    /\ timezoneOffset = 0
    /\ input = NoInput
    /\ output = <<>>
    /\ groupedSegments = <<>>
    /\ JobStart

\* this.transcriptionEngine(file).then((transcription) => ...): the promise
\* getTranscription returns, as a function of the promise of the backend.  A
\* fulfilment passes through the callback, a rejection passes unchanged; the
\* callback is a microtask of the step that settles the backend's promise.
thenPromise(backendPromise) ==
    IF backendPromise.state = "resolved"
    THEN [state |-> "resolved", value |-> onFulfilled(backendPromise.value)]
    ELSE backendPromise

\* resolve(value) / reject(value): only the first call settles the promise
Settle(state, value) ==
    /\ promise' = IF promise.state = "pending"
                  THEN [state |-> state, value |-> value]
                  ELSE promise
    /\ result' = thenPromise(promise')
    /\ settleCalls' = settleCalls + 1
    /\ lastSettle' = [state |-> state, value |-> value]

NoSettle == UNCHANGED <<promise, result, settleCalls, lastSettle>>

(***************************************************************************)
(* getTranscription: dispatch on settings.transcriptionEngine.  Both       *)
(* backends run to their first await.                                      *)
(***************************************************************************)
getTranscription ==
    /\ pc = "idle"
    /\ input = NoInput
    /\ transcriptionEngine' =
          transcription_engines(settings.transcriptionEngine)
    /\ invocations' = invocations + 1
    /\ pc' = IF transcriptionEngine' = "getTranscriptionSwiftink"
             THEN "getSession" ELSE "readBinaryA"
    /\ issued' = IF transcriptionEngine' = "getTranscriptionSwiftink"
                 THEN issued ELSE issued \cup {"readBinary"}
    /\ UNCHANGED <<envVars, completed, queryCodes, noticesCreated,
                   session, createResponse, lastQuery,
                   promise, result, inflight, poll, intervalID, tries,
                   transcript, taskId, bytesUploaded, uploadProgressNotice,
                   transcriptionProgressNotice, clearCalls, settleCalls,
                   lastSettle, sawTerminal, overlapped, faults>>

(***************************************************************************)
(* Backend B: getTranscriptionSwiftink                                     *)
(***************************************************************************)
\* await this.supabase.auth.getSession() returns; without a session the
\* function returns Promise.reject(...), else it reads the file
SessionReturns(data) ==
    /\ pc = "getSession"
    /\ session' = data
    /\ IF SessionAbsent(data)
       THEN /\ Settle("rejected",
                      <<"No user session found. Please log in and try again.">>)
            /\ pc' = "returned"
            /\ UNCHANGED issued
       ELSE /\ NoSettle
            /\ pc' = "readBinary"
            /\ issued' = issued \cup {"readBinary"}
    /\ UNCHANGED <<envVars, callVars, completed, queryCodes, noticesCreated,
                   createResponse, lastQuery, inflight, poll, intervalID, tries, transcript,
                   taskId, bytesUploaded, uploadProgressNotice,
                   transcriptionProgressNotice, clearCalls, sawTerminal,
                   overlapped, faults>>

\* await this.vault.readBinary(file) returns; new tus.Upload and
\* upload.start() run inside the executor of uploadPromise.  A throw inside
\* the executor rejects uploadPromise and is caught at line 354.
ReadReturns(started) ==
    /\ pc = "readBinary"
    /\ IF started
       THEN /\ pc' = "upload"
            /\ NoSettle
            /\ UNCHANGED faults
       ELSE /\ pc' = "returned"
            /\ Settle("rejected", <<"Notice: Failed to upload to Swiftink">>)
            /\ faults' = faults \cup {"upload"}
    /\ issued' = issued \cup {"upload"}
    /\ UNCHANGED <<envVars, callVars, completed, queryCodes, noticesCreated,
                   session, createResponse, lastQuery,
                   inflight, poll, intervalID, tries, transcript,
                   taskId, bytesUploaded, uploadProgressNotice,
                   transcriptionProgressNotice, clearCalls, sawTerminal,
                   overlapped>>

\* await this.vault.readBinary(file) throws: the async function rejects
ReadThrows ==
    /\ pc = "readBinary"
    /\ pc' = "returned"
    /\ Settle("rejected", <<"ReadError">>)
    /\ faults' = faults \cup {"read"}
    /\ UNCHANGED <<envVars, callVars, completed, queryCodes, noticesCreated,
                   session, createResponse, lastQuery,
                   inflight, poll, intervalID, tries, transcript,
                   taskId, bytesUploaded, uploadProgressNotice,
                   transcriptionProgressNotice, issued, clearCalls,
                   sawTerminal, overlapped>>

\* onProgress(bytesUploaded, bytesTotal)
onProgress ==
    /\ pc = "upload"
    /\ bytesUploaded < UploadChunks
    /\ bytesUploaded' = bytesUploaded + 1
    /\ uploadProgressNotice' =
          IF needsNewNotice(uploadProgressNotice) THEN "shown"
          ELSE uploadProgressNotice
    /\ noticesCreated' =
          IF needsNewNotice(uploadProgressNotice)
          THEN [noticesCreated EXCEPT !.upload = @ + 1]
          ELSE noticesCreated
    /\ UNCHANGED <<envVars, callVars, completed, queryCodes,
                   session, createResponse, lastQuery,
                   pc, promise, result, inflight, poll, intervalID, tries,
                   transcript, taskId, transcriptionProgressNotice, issued,
                   clearCalls, settleCalls, lastSettle, sawTerminal,
                   overlapped, faults>>

\* onSuccess, then the continuation of `await uploadPromise`: the POST
\* /transcripts/ request is issued
onSuccess ==
    /\ pc = "upload"
    /\ uploadProgressNotice' =
          IF uploadProgressNotice = "null" THEN "null" ELSE "hidden"
    /\ pc' = "createTranscript"
    /\ completed' = completed \cup {"upload"}
    /\ issued' = issued \cup {"createTranscript"}
    /\ UNCHANGED <<envVars, callVars, queryCodes, noticesCreated,
                   session, createResponse, lastQuery,
                   promise, result, inflight, poll, intervalID, tries,
                   transcript, taskId, bytesUploaded,
                   transcriptionProgressNotice, clearCalls, settleCalls,
                   lastSettle, sawTerminal, overlapped, faults>>

\* the upload fails after upload.start() has returned.  The options hold no
\* onError, so no callback of this code runs: uploadPromise, which is given
\* resolve only, stays pending and the function never resumes.
UploadFails ==
    /\ pc = "upload"
    /\ pc' = "uploadStalled"
    /\ faults' = faults \cup {"upload"}
    /\ UNCHANGED <<envVars, callVars, completed, queryCodes, noticesCreated,
                   session, createResponse, lastQuery,
                   promise, result, inflight, poll, intervalID, tries,
                   transcript, taskId, bytesUploaded, uploadProgressNotice,
                   transcriptionProgressNotice, issued, clearCalls,
                   settleCalls, lastSettle, sawTerminal, overlapped>>

\* await requestUrl(POST) returns: transcript is set and the timer started
CreateReturns(body) ==
    /\ pc = "createTranscript"
    /\ pc' = "polling"
    /\ completed' = completed \cup {"createTranscript"}
    /\ transcript' = body
    /\ tries' = 0
    /\ poll' = "active"
    /\ UNCHANGED <<envVars, callVars, queryCodes, noticesCreated,
                   session, createResponse, lastQuery,
                   promise, result, inflight, intervalID, taskId,
                   bytesUploaded, uploadProgressNotice,
                   transcriptionProgressNotice, issued, clearCalls,
                   settleCalls, lastSettle, sawTerminal, overlapped, faults>>

CreateThrowsStartsPolling ==
    /\ pc = "createTranscript"
    /\ pc' = "polling"
    /\ poll' = "active"
    /\ Settle("rejected", <<"CreateError">>)
    /\ faults' = faults \cup {"createTranscript"}
    /\ UNCHANGED <<envVars, callVars, completed, queryCodes, noticesCreated,
                   session, createResponse, lastQuery,
                   inflight, intervalID, tries, transcript,
                   taskId, bytesUploaded, uploadProgressNotice,
                   transcriptionProgressNotice, issued, clearCalls,
                   sawTerminal, overlapped>>

\* await requestUrl(POST) throws: return Promise.reject(error)
CreateThrows ==
    /\ pc = "createTranscript"
    /\ pc' = "returned"
    /\ Settle("rejected", <<"CreateError">>)
    /\ faults' = faults \cup {"createTranscript"}
    /\ UNCHANGED <<envVars, callVars, completed, queryCodes, noticesCreated,
                   session, createResponse, lastQuery,
                   inflight, poll, intervalID, tries, transcript,
                   taskId, bytesUploaded, uploadProgressNotice,
                   transcriptionProgressNotice, issued, clearCalls,
                   sawTerminal, overlapped>>

\* the interval fires: the callback runs to `await requestUrl(options)`
PollTick ==
    /\ TickFires(poll, inflight)
    /\ inflight < MaxInFlight
    /\ inflight' = inflight + 1
    /\ overlapped' = (overlapped \/ inflight >= 1)
    /\ issued' = issued \cup {"poll"}
    /\ UNCHANGED <<envVars, callVars, completed, queryCodes, noticesCreated,
                   session, createResponse, lastQuery,
                   pc, promise, result, poll, intervalID, tries, transcript,
                   taskId, bytesUploaded, uploadProgressNotice,
                   transcriptionProgressNotice, clearCalls, settleCalls,
                   lastSettle, sawTerminal, faults>>

\* requestUrl(GET) returns: the rest of the callback, lines 431-476
PollReturns(response) ==
    /\ transcriptionEngine = "getTranscriptionSwiftink"
    /\ inflight > 0
    /\ inflight' = inflight - 1
    /\ transcript' = response
    /\ LET branch == PollBranch(response.status, tries,
                                completed_statuses(settings))
       IN  /\ IF branch = "continue"
              THEN /\ UNCHANGED <<poll, clearCalls>>
                   /\ NoSettle
              ELSE /\ poll' = "cleared"
                   /\ clearCalls' = clearCalls + 1
                   /\ Settle(
                        IF branch = "completed" THEN "resolved" ELSE "rejected",
                        CASE branch = "completed" ->
                               formatSwiftinkResults(response, settings,
                                                     timezoneOffset)
                          [] branch = "failed" ->
                               <<"Swiftink failed to transcribe the file">>
                          [] branch = "validation_failed" ->
                               <<"Swiftink has detected an invalid file">>
                          [] branch = "timeout" ->
                               <<"Swiftink took too long to transcribe the file">>)
           /\ transcriptionProgressNotice' =
                 CASE branch = "completed" ->
                        IF transcriptionProgressNotice = "null"
                        THEN "null" ELSE "hidden"
                   [] branch = "continue" ->
                        IF needsNewNotice(transcriptionProgressNotice)
                        THEN "shown" ELSE transcriptionProgressNotice
                   [] OTHER -> transcriptionProgressNotice
           /\ noticesCreated' =
                 IF branch = "continue"
                    /\ needsNewNotice(transcriptionProgressNotice)
                 THEN [noticesCreated EXCEPT !.transcription = @ + 1]
                 ELSE noticesCreated
           /\ sawTerminal' =
                 (sawTerminal \/
                  branch \in {"completed", "failed", "validation_failed"})
    /\ tries' = tries + 1
    /\ UNCHANGED <<envVars, callVars, completed, queryCodes,
                   session, createResponse, lastQuery,
                   pc, intervalID, taskId, bytesUploaded,
                   uploadProgressNotice, issued, overlapped, faults>>

\* requestUrl(GET) throws: the async callback rejects its own promise, which
\* nobody handles; tries++ is not reached and the timer keeps running
PollThrows ==
    /\ transcriptionEngine = "getTranscriptionSwiftink"
    /\ inflight > 0
    /\ inflight' = inflight - 1
    /\ faults' = faults \cup {"poll"}
    /\ UNCHANGED <<envVars, callVars, completed, queryCodes, noticesCreated,
                   session, createResponse, lastQuery,
                   pc, promise, result, poll, intervalID, tries, transcript,
                   taskId, bytesUploaded, uploadProgressNotice,
                   transcriptionProgressNotice, issued, clearCalls,
                   settleCalls, lastSettle, sawTerminal, overlapped>>

(***************************************************************************)
(* Backend A: getTranscriptionWhisperASR                                   *)
(***************************************************************************)
\* await this.vault.readBinary(file) returns: the create request is built,
\* written and ended, and the promise is returned
ReadReturnsA ==
    /\ pc = "readBinaryA"
    /\ pc' = "createRequest"
    /\ issued' = issued \cup {"createRequest"}
    /\ UNCHANGED <<envVars, callVars, completed, queryCodes, noticesCreated,
                   session, createResponse, lastQuery,
                   promise, result, inflight, poll, intervalID, tries,
                   transcript, taskId, bytesUploaded, uploadProgressNotice,
                   transcriptionProgressNotice, clearCalls, settleCalls,
                   lastSettle, sawTerminal, overlapped, faults>>

\* await this.vault.readBinary(file) throws: the async function rejects
ReadThrowsA ==
    /\ pc = "readBinaryA"
    /\ pc' = "returned"
    /\ Settle("rejected", <<"ReadError">>)
    /\ faults' = faults \cup {"read"}
    /\ UNCHANGED <<envVars, callVars, completed, queryCodes, noticesCreated,
                   session, createResponse, lastQuery,
                   inflight, poll, intervalID, tries, transcript,
                   taskId, bytesUploaded, uploadProgressNotice,
                   transcriptionProgressNotice, issued, clearCalls,
                   sawTerminal, overlapped>>

\* createResponse.on('end'): JSON.parse, the code check, setInterval.  A
\* body JSON.parse rejects throws out of the event callback: nothing after
\* line 190 runs.
CreateResponseEnd(response) ==
    /\ pc = "createRequest"
    /\ createResponse' = response
    /\ IF ~response.wellFormed
       THEN /\ pc' = "createStalled"
            /\ faults' = faults \cup {"createMalformed"}
            /\ NoSettle
            /\ UNCHANGED <<taskId, intervalID>>
       ELSE IF CreateAccepted(response)
       THEN /\ pc' = "pollingA"
            /\ taskId' = response.taskId
            /\ intervalID' = "active"
            /\ NoSettle
            /\ UNCHANGED faults
       ELSE /\ pc' = "returned"
            /\ Settle("rejected", <<response.msg>>)
            /\ UNCHANGED <<taskId, intervalID, faults>>
    /\ UNCHANGED <<envVars, callVars, completed, queryCodes, noticesCreated,
                   session, lastQuery, inflight, poll, tries, transcript, bytesUploaded,
                   uploadProgressNotice, transcriptionProgressNotice, issued,
                   clearCalls, sawTerminal, overlapped>>

\* createRequest.on('error'): console.error(error), nothing else
CreateRequestError ==
    /\ pc = "createRequest"
    /\ pc' = "createStalled"
    /\ faults' = faults \cup {"createTransport"}
    /\ UNCHANGED <<envVars, callVars, completed, queryCodes, noticesCreated,
                   session, createResponse, lastQuery,
                   promise, result, inflight, poll, intervalID, tries,
                   transcript, taskId, bytesUploaded, uploadProgressNotice,
                   transcriptionProgressNotice, issued, clearCalls,
                   settleCalls, lastSettle, sawTerminal, overlapped>>

QueryTickCapped ==
    /\ TickFires(intervalID, inflight)
    /\ queryCodes = {}
    /\ inflight < MaxInFlight
    /\ inflight' = inflight + 1
    /\ overlapped' = (overlapped \/ inflight >= 1)
    /\ issued' = issued \cup {"query"}
    /\ UNCHANGED <<envVars, callVars, completed, queryCodes, noticesCreated,
                   session, createResponse, lastQuery,
                   pc, promise, result, poll, intervalID, tries, transcript,
                   taskId, bytesUploaded, uploadProgressNotice,
                   transcriptionProgressNotice, clearCalls, settleCalls,
                   lastSettle, sawTerminal, faults>>

\* the interval fires: a query request is created and ended
QueryTick ==
    /\ TickFires(intervalID, inflight)
    /\ inflight < MaxInFlight
    /\ inflight' = inflight + 1
    /\ overlapped' = (overlapped \/ inflight >= 1)
    /\ issued' = issued \cup {"query"}
    /\ UNCHANGED <<envVars, callVars, completed, queryCodes, noticesCreated,
                   session, createResponse, lastQuery,
                   pc, promise, result, poll, intervalID, tries, transcript,
                   taskId, bytesUploaded, uploadProgressNotice,
                   transcriptionProgressNotice, clearCalls, settleCalls,
                   lastSettle, sawTerminal, faults>>

\* queryResponse.on('end'): JSON.parse and the chain on responseJSON.code
QueryResponseEnd(response) ==
    /\ transcriptionEngine = "getTranscriptionWhisperASR"
    /\ inflight > 0
    /\ inflight' = inflight - 1
    /\ lastQuery' = [flip |-> ~lastQuery.flip, response |-> response]
    /\ queryCodes' = IF response.wellFormed
                     THEN queryCodes \cup {response.code} ELSE queryCodes
    /\ LET branch == QueryBranch(response.code)
       IN  IF ~response.wellFormed
           THEN /\ faults' = faults \cup {"queryMalformed"}
                /\ NoSettle
                /\ UNCHANGED <<intervalID, clearCalls>>
           ELSE IF branch = "done" /\ ~response.resultOk
           THEN /\ faults' = faults \cup {"resultMalformed"}
                /\ NoSettle
                /\ UNCHANGED <<intervalID, clearCalls>>
           ELSE IF branch = "done"
           THEN /\ Settle("resolved", joinSentences(response.sentences))
                /\ intervalID' = "cleared"
                /\ clearCalls' = clearCalls + 1
                /\ UNCHANGED faults
           ELSE IF branch = "waiting"
           THEN /\ NoSettle
                /\ UNCHANGED <<intervalID, clearCalls, faults>>
           ELSE /\ Settle("rejected", <<response.msg>>)
                /\ intervalID' = "cleared"
                /\ clearCalls' = clearCalls + 1
                /\ UNCHANGED faults
    /\ UNCHANGED <<envVars, callVars, completed, noticesCreated,
                   session, createResponse, pc, poll, tries, transcript, taskId,
                   bytesUploaded, uploadProgressNotice,
                   transcriptionProgressNotice, issued, sawTerminal,
                   overlapped>>

\* queryRequest.on('error'): reject(error); clearInterval(intervalID)
QueryRequestError ==
    /\ transcriptionEngine = "getTranscriptionWhisperASR"
    /\ inflight > 0
    /\ inflight' = inflight - 1
    /\ Settle("rejected", <<"QueryError">>)
    /\ intervalID' = "cleared"
    /\ clearCalls' = clearCalls + 1
    /\ faults' = faults \cup {"queryTransport"}
    /\ UNCHANGED <<envVars, callVars, completed, queryCodes, noticesCreated,
                   session, createResponse, lastQuery,
                   pc, poll, tries, transcript, taskId,
                   bytesUploaded, uploadProgressNotice,
                   transcriptionProgressNotice, issued, sawTerminal,
                   overlapped>>

(***************************************************************************)
(* Specification                                                           *)
(***************************************************************************)
Next ==
    \/ getTranscription
    \/ \E data \in SessionResults : SessionReturns(data)
    \/ \E started \in BOOLEAN : ReadReturns(started)
    \/ ReadThrows
    \/ onProgress
    \/ onSuccess
    \/ UploadFails
    \/ \E body \in Bodies : CreateReturns(body)
    \/ CreateThrows
    \/ PollTick
    \/ \E response \in PollResponses : PollReturns(response)
    \/ PollThrows
    \/ ReadReturnsA
    \/ ReadThrowsA
    \/ \E response \in CreateResponses : CreateResponseEnd(response)
    \/ CreateRequestError
    \/ QueryTick
    \/ \E response \in QueryResponses : QueryResponseEnd(response)
    \/ QueryRequestError

Spec == Init /\ [][Next]_vars

(***************************************************************************)
(* The two pure functions on their own: formatSwiftinkResults and          *)
(* segmentsToTimestampedString applied once to an argument drawn from a    *)
(* bounded set.  The job does not run.                                     *)
(***************************************************************************)
MaxSegments == 3
MaxStart == 3
MaxInterval == 3

FormatSettings ==
    [transcriptionEngine : {"swiftink"},
     embedSummary : BOOLEAN, embedOutline : BOOLEAN, embedKeywords : BOOLEAN,
     embedAdditionalFunctionality : BOOLEAN,
     timestamps : BOOLEAN,
     timestampFormat : {"auto"}]

\* upstream texts that end in no newline, in one, in several, or are empty
FormatTranscripts ==
    [id : {"t1"}, name : {"rec.mp3"}, status : {"complete"},
     text : {<<>>, <<"a">>, <<"a", NL>>, <<"a", NL, NL>>, <<NL>>},
     text_segments :
        {<<>>, <<[start |-> 0, end |-> 65, text |-> <<"a", " ">>]>>},
     summary : {<<>>, <<"s">>, <<"s", NL>>, <<"s", NL, NL>>, INSUFFICIENT},
     heading_segments :
        {<<>>, <<[start |-> 0, end |-> 65, text |-> <<"h">>]>>},
     keywords : {<<>>, <<"k", "w">>, <<"k", NL>>}]

FormatInputs ==
    {[kind |-> "transcript", transcript |-> t] : t \in FormatTranscripts}

\* segments in any order, with ends that do not follow the starts
SegmentPool ==
    {[start |-> s, end |-> s + d,
      text |-> IF d = 1 THEN <<"a">> ELSE <<" ", "b">>] :
        s \in 0..MaxStart, d \in {1, 3}}

RenderInputs ==
    {[kind |-> "segments", segments |-> segs, interval |-> i,
      timestampFormat |-> "auto"] :
        segs \in UNION {[1..n -> SegmentPool] : n \in 0..MaxSegments},
        i \in 1..MaxInterval}

RenderSettings ==
    [transcriptionEngine |-> "swiftink", embedSummary |-> FALSE,
     embedOutline |-> FALSE, embedKeywords |-> FALSE,
     embedAdditionalFunctionality |-> FALSE, timestamps |-> TRUE,
     timestampFormat |-> "auto"]

jobVarsButPc ==
    <<session, createResponse, lastQuery, promise, inflight, poll,
      intervalID, tries, transcript, taskId, bytesUploaded,
      uploadProgressNotice, transcriptionProgressNotice, issued, clearCalls,
      settleCalls, lastSettle, sawTerminal, overlapped, faults,
      transcriptionEngine, invocations, result, completed, queryCodes,
      noticesCreated>>

InitFunctions ==
    /\ timezoneOffset = 0
    /\ \/ input \in FormatInputs /\ settings \in FormatSettings
       \/ input \in RenderInputs /\ settings = RenderSettings
    /\ output = <<>>
    /\ groupedSegments = <<>>
    /\ JobStart

\* formatSwiftinkResults(transcript)
applyFormatSwiftinkResults ==
    /\ pc = "idle"
    /\ input.kind = "transcript"
    /\ output' = formatSwiftinkResults(input.transcript, settings,
                                       timezoneOffset)
    /\ pc' = "returned"
    /\ UNCHANGED <<settings, timezoneOffset, input, groupedSegments,
                   jobVarsButPc>>

\* segmentsToTimestampedString(segments, timestampFormat, interval)
applySegmentsToTimestampedString ==
    /\ pc = "idle"
    /\ input.kind = "segments"
    /\ groupedSegments' = groupSegments(input.segments, input.interval, <<>>)
    /\ output' = segmentsToTimestampedString(input.segments,
                                             input.timestampFormat,
                                             input.interval, timezoneOffset)
    /\ pc' = "returned"
    /\ UNCHANGED <<settings, timezoneOffset, input, jobVarsButPc>>

NextFunctions ==
    \/ applyFormatSwiftinkResults
    \/ applySegmentsToTimestampedString

SpecFunctions == InitFunctions /\ [][NextFunctions]_vars

(***************************************************************************)
(* Backend B jobs under the scheduling the runtime gives them: while the   *)
(* interval timer is set it keeps firing, and every poll request that was  *)
(* issued is answered or fails.  Which of the two happens is up to the     *)
(* remote service.                                                         *)
(***************************************************************************)
SwiftinkSettings ==
    {st \in JobSettings :
        /\ st.transcriptionEngine = "swiftink"
        /\ ~st.embedOutline
        /\ ~st.embedKeywords}

InitSwiftink ==
    /\ settings \in SwiftinkSettings
    /\ timezoneOffset = 0
    /\ input = NoInput
    /\ output = <<>>
    /\ groupedSegments = <<>>
    /\ JobStart

PollSettles ==
    \/ \E response \in PollResponses : PollReturns(response)
    \/ PollThrows

NextSwiftink ==
    \/ getTranscription
    \/ \E data \in SessionResults : SessionReturns(data)
    \/ \E started \in BOOLEAN : ReadReturns(started)
    \/ ReadThrows
    \/ onProgress
    \/ onSuccess
    \/ UploadFails
    \/ \E body \in Bodies : CreateReturns(body)
    \/ CreateThrows
    \/ PollTick
    \/ PollSettles

SpecSwiftinkFair ==
    /\ InitSwiftink
    /\ [][NextSwiftink]_vars
    /\ WF_vars(PollTick)
    /\ WF_vars(PollSettles)

(***************************************************************************)
(* Vocabulary of the properties                                            *)
(***************************************************************************)
IsSwiftink == settings.transcriptionEngine = "swiftink"

IsWhisperASR == settings.transcriptionEngine = "whisper_asr"

Narrowed ==
    settings.embedSummary \/ settings.embedOutline \/ settings.embedKeywords

Rejected(message) == [state |-> "rejected", value |-> <<message>>]

Resolved(value) == [state |-> "resolved", value |-> value]

TimeoutRejection == Rejected("Swiftink took too long to transcribe the file")

\* a step in which the poll callback of Backend B handles a response: the
\* only steps that change tries once polling has started
PollHandled == IsSwiftink /\ tries' = tries + 1

\* a step in which Backend A handles the end of a query response
QueryHandled == IsWhisperASR /\ lastQuery'.flip # lastQuery.flip

\* nothing is scheduled any more: no timer runs, no request is awaited and
\* the backend function is not suspended at an await that can still return
Quiescent ==
    /\ inflight = 0
    /\ poll # "active"
    /\ intervalID # "active"
    /\ pc \in {"returned", "uploadStalled", "createStalled", "polling",
               "pollingA"}

(***************************************************************************)
(* C1.  Backend B attempt cap: when polls are answered one at a time and   *)
(* the first 100 poll responses are all non-terminal, a 101st poll         *)
(* response that is still non-terminal rejects the job with the timeout    *)
(* message and stops the poll timer.  Stated on the state right after the  *)
(* 101st response (tries counts the responses handled).                    *)
(***************************************************************************)
C1_TimeoutAt101stPoll ==
    (IsSwiftink /\ tries = MAX_TRIES + 1 /\ ~sawTerminal /\ ~overlapped)
        => (promise = TimeoutRejection /\ poll = "cleared")

(***************************************************************************)
(* C2.  Backend B status-set narrowing: with embedSummary, embedOutline or *)
(* embedKeywords set, a poll response with status "transcribed" does not   *)
(* resolve the job: it is handled as a non-terminal poll (no resolve; the  *)
(* timer and the promise change only if the attempt cap strikes), and      *)
(* resolve is called only for status "complete".  With none of the three   *)
(* set, both "transcribed" and "complete" resolve the job.                 *)
(***************************************************************************)
C2_StatusNarrowing ==
    [][PollHandled =>
        LET status == transcript'.status
            resolveCalled == /\ settleCalls' = settleCalls + 1
                             /\ lastSettle'.state = "resolved"
        IN  /\ (Narrowed /\ status = "transcribed") =>
                  /\ ~resolveCalled
                  /\ promise'.state = "resolved" => promise.state = "resolved"
                  /\ tries <= MAX_TRIES =>
                        UNCHANGED <<promise, poll, settleCalls, clearCalls>>
            /\ (Narrowed /\ resolveCalled) => status = "complete"
            /\ (status = "complete"
                \/ (~Narrowed /\ status = "transcribed")) =>
                  /\ resolveCalled
                  /\ poll' = "cleared"
                  /\ promise.state = "pending" => promise'.state = "resolved"
    ]_vars

C2_Witness ==
    /\ IsSwiftink /\ Narrowed
    /\ transcript.status = "transcribed"
    /\ tries >= 1
    /\ promise.state = "pending"
    /\ poll = "active"

(***************************************************************************)
(* C3.  Backend B: a poll response with status "failed" or                 *)
(* "validation_failed" calls reject with the message of that status and    *)
(* clears the timer in the same step, whatever the value of tries; a job   *)
(* that was still pending is thereby rejected with that message; and once  *)
(* the timer is cleared no further poll request is issued.                 *)
(***************************************************************************)
C3_FailedRejectsAtOnce ==
    [][/\ (PollHandled
           /\ transcript'.status \in {"failed", "validation_failed"}) =>
             LET message ==
                    IF transcript'.status = "failed"
                    THEN "Swiftink failed to transcribe the file"
                    ELSE "Swiftink has detected an invalid file"
             IN  /\ settleCalls' = settleCalls + 1
                 /\ lastSettle' = Rejected(message)
                 /\ poll' = "cleared"
                 /\ promise.state = "pending" => promise' = Rejected(message)
       /\ (IsSwiftink /\ poll = "cleared") =>
             (poll' = "cleared" /\ inflight' <= inflight)
    ]_vars

C3_Witness ==
    /\ IsSwiftink
    /\ transcript.status = "failed"
    /\ tries = MAX_TRIES + 2
    /\ promise = Rejected("Swiftink failed to transcribe the file")
    /\ poll = "cleared"

(***************************************************************************)
(* C4.  Backend B: 99 non-terminal poll responses followed by a poll       *)
(* response whose status is in the completed set resolve the job with      *)
(* formatSwiftinkResults of that response, and no timeout rejection occurs *)
(* before or at that poll (the job is pending until then).                 *)
(***************************************************************************)
C4_ResolvesAfter99 ==
    [][(PollHandled /\ tries = MAX_TRIES - 1 /\ ~sawTerminal
        /\ transcript'.status \in completed_statuses(settings)) =>
          /\ promise = Pending
          /\ promise' = Resolved(formatSwiftinkResults(transcript', settings,
                                                       timezoneOffset))
          /\ poll' = "cleared"
    ]_vars

C4_Witness ==
    /\ IsSwiftink
    /\ tries = MAX_TRIES
    /\ settleCalls = 1
    /\ transcript.status \in completed_statuses(settings)
    /\ promise = Resolved(formatSwiftinkResults(transcript, settings,
                                                timezoneOffset))
    /\ promise.value = <<"## Transcript", NL, "a", NL, "## Summary", NL, "s",
                         NL, "## Keywords", NL, "k", ", ", "w", NL,
                         "[...](obsidian://swiftink_transcript_functions?id=",
                         "t1", ")">>

(***************************************************************************)
(* C5.  Backend A: polling of the query endpoint starts only if the create *)
(* response contains the success code 10000 and a task identifier; for any *)
(* other create response the job is rejected immediately with the message  *)
(* of the provider and no query request is ever issued.  Stated for the    *)
(* create responses whose body parses.                                     *)
(***************************************************************************)
C5_PollingNeedsCodeAndTaskId ==
    (IsWhisperASR /\ createResponse.wellFormed) =>
        LET accepted == /\ createResponse.code = CREATE_OK
                        /\ createResponse.taskId # "undefined"
        IN  /\ (intervalID # "unset" \/ "query" \in issued) => accepted
            /\ ~accepted =>
                  /\ promise = Rejected(createResponse.msg)
                  /\ "query" \notin issued

(***************************************************************************)
(* C6.  Backend A query handling, for a query response whose body (and,    *)
(* for code 11000, whose nested result) parses: code 11000 calls resolve   *)
(* with the space-joined sentence texts and clears the timer; code 11001   *)
(* changes nothing of the job and the timer keeps running; any other code  *)
(* calls reject with the message of the provider and clears the timer.  A  *)
(* job that was still pending is settled accordingly.                      *)
(***************************************************************************)
C6_QueryHandling ==
    [][(QueryHandled /\ lastQuery'.response.wellFormed) =>
        LET response == lastQuery'.response
        IN  /\ (response.code = QUERY_DONE /\ response.resultOk) =>
                  /\ settleCalls' = settleCalls + 1
                  /\ lastSettle' = Resolved(joinSentences(response.sentences))
                  /\ promise.state = "pending" => promise' = lastSettle'
                  /\ intervalID' = "cleared"
            /\ response.code = QUERY_WAITING =>
                  UNCHANGED <<promise, intervalID, settleCalls, clearCalls,
                              lastSettle, taskId, pc>>
            /\ response.code \notin {QUERY_DONE, QUERY_WAITING} =>
                  /\ settleCalls' = settleCalls + 1
                  /\ lastSettle' = Rejected(response.msg)
                  /\ promise.state = "pending" => promise' = lastSettle'
                  /\ intervalID' = "cleared"
    ]_vars

C6_Witness ==
    /\ IsWhisperASR
    /\ lastQuery.response.code = QUERY_DONE
    /\ lastQuery.response.sentences = << <<"a">>, <<"b", "c">> >>
    /\ promise = Resolved(<<"a", " ", "b", "c">>)
    /\ intervalID = "cleared"
    /\ settleCalls = 1

(***************************************************************************)
(* C7.  Every failure surfaces as a rejected promise: after a transport    *)
(* error on the create request of Backend A, an unparseable create or      *)
(* query response body, a failed upload of Backend B or a poll request of  *)
(* Backend B that throws, the promise of the job is never left pending     *)
(* forever.  Stated as: once nothing is scheduled any more, the promise of *)
(* a job that met such a failure is settled.                               *)
(***************************************************************************)
C7_FailuresSurface ==
    (Quiescent
     /\ faults \cap {"createTransport", "createMalformed", "queryMalformed",
                     "upload", "poll"} # {})
        => promise.state # "pending"

(***************************************************************************)
(* C8.  Backend B: when the resumable upload fails, the job is rejected    *)
(* and the rejection value carries the underlying transport error; no      *)
(* create-transcript request and no poll is issued.  Stated on the states  *)
(* where nothing is scheduled any more.                                    *)
(***************************************************************************)
C8_UploadFailureCarriesError ==
    (IsSwiftink /\ "upload" \in faults /\ Quiescent) =>
        /\ promise = Rejected("UploadError")
        /\ "createTranscript" \notin issued
        /\ "poll" \notin issued

(***************************************************************************)
(* C9.  Backend B: when no authenticated session exists, the job is        *)
(* rejected immediately and none of the later steps happens: the file is   *)
(* not read, no upload is started, no create-transcript request and no     *)
(* poll request is issued.                                                 *)
(***************************************************************************)
C9_NoSessionRejects ==
    (IsSwiftink /\ session \in {"dataNull", "sessionNull"}) =>
        /\ promise =
              Rejected("No user session found. Please log in and try again.")
        /\ pc = "returned"
        /\ issued = {}
        /\ bytesUploaded = 0
        /\ inflight = 0
        /\ poll = "unset"

C9_Witness ==
    /\ IsSwiftink
    /\ session = "sessionNull"
    /\ promise.state = "rejected"
    /\ settleCalls = 1

(***************************************************************************)
(* C10.  In both backends the poll loop is cancelled exactly once per job, *)
(* when a terminal condition is reached: in every execution, also with     *)
(* overlapping poll round-trips, clearInterval is called once and the      *)
(* resolve / reject of the job is called once.                             *)
(***************************************************************************)
C10_CancelledExactlyOnce ==
    /\ clearCalls <= 1
    /\ settleCalls <= 1
    /\ (poll = "cleared" \/ intervalID = "cleared") =>
          (clearCalls = 1 /\ settleCalls = 1)

(***************************************************************************)
(* C11.  The status held in `transcript` of a Backend B job is monotonic   *)
(* toward a terminal state: once it holds a completed, failed or           *)
(* validation_failed status it never goes back to a non-terminal status,   *)
(* under any ordering of poll responses.                                   *)
(***************************************************************************)
TerminalStatuses ==
    completed_statuses(settings) \cup {"failed", "validation_failed"}

C11_StatusMonotonic ==
    [][(IsSwiftink /\ transcript.status \in TerminalStatuses)
          => transcript'.status \in TerminalStatuses]_vars

(***************************************************************************)
(* C12.  getTranscription invokes exactly one backend, the one named by    *)
(* settings.transcriptionEngine, exactly once, and its outcome equals the  *)
(* outcome of that backend: the same resolved text or the same rejection   *)
(* value; after a failure of the backend it neither invokes the other      *)
(* backend nor invokes the same one again.                                 *)
(***************************************************************************)
C12_OneBackendSameOutcome ==
    /\ invocations <= 1
    /\ pc # "idle" =>
          /\ invocations = 1
          /\ IsSwiftink => transcriptionEngine = "getTranscriptionSwiftink"
          /\ IsWhisperASR =>
                transcriptionEngine = "getTranscriptionWhisperASR"
    /\ result.state = promise.state
    /\ result.value = promise.value
    /\ IsSwiftink =>
          /\ intervalID = "unset"
          /\ issued \cap {"createRequest", "query"} = {}
          /\ pc \notin {"readBinaryA", "createRequest", "createStalled",
                        "pollingA"}
    /\ IsWhisperASR =>
          /\ session = "unset"
          /\ poll = "unset"
          /\ issued \cap {"upload", "createTranscript", "poll"} = {}
          /\ pc \notin {"getSession", "readBinary", "upload",
                        "uploadStalled", "createTranscript", "polling"}

C12_Witness ==
    /\ IsSwiftink
    /\ invocations = 1
    /\ "createTranscript" \in faults
    /\ promise = Rejected("CreateError")
    /\ result = Rejected("CreateError")
    /\ pc = "returned"

(***************************************************************************)
(* The sections of a formatted result, read off the output                 *)
(***************************************************************************)
LinkOpen == "[...](obsidian://swiftink_transcript_functions?id="

Headings == {"## Transcript", "## Summary", "## Outline", "## Keywords"}

IsSectionMark(token) == token \in Headings \cup {LinkOpen}

Formatted == input.kind = "transcript" /\ pc = "returned"

\* the index of the last token of the section that starts at index i
SectionEnd(i) ==
    LET later == {j \in (i + 1)..Len(output) : IsSectionMark(output[j])}
    IN  IF later = {} THEN Len(output)
        ELSE (CHOOSE j \in later : \A k \in later : j <= k) - 1

(***************************************************************************)
(* C13.  formatSwiftinkResults emits its sections in the order Transcript, *)
(* Summary, Outline, Keywords, deep link.  Transcript is always present;   *)
(* Summary is present iff embedSummary is set and the summary is non-empty *)
(* and is not the sentinel; Outline iff embedOutline is set and there are  *)
(* heading segments; Keywords iff embedKeywords is set and there are       *)
(* keywords; the deep link iff its flag is set.  With all flags false the  *)
(* output holds the Transcript section only.                               *)
(***************************************************************************)
C13_SectionsInOrder ==
    Formatted =>
        LET t == input.transcript
            present(flag, data) == IF flag /\ data THEN 1 ELSE 0
            expected ==
                <<"## Transcript">>
                \o [i \in 1..present(settings.embedSummary,
                                     t.summary # <<>>
                                     /\ t.summary # INSUFFICIENT) |->
                       "## Summary"]
                \o [i \in 1..present(settings.embedOutline,
                                     t.heading_segments # <<>>) |->
                       "## Outline"]
                \o [i \in 1..present(settings.embedKeywords,
                                     t.keywords # <<>>) |->
                       "## Keywords"]
                \o [i \in 1..present(settings.embedAdditionalFunctionality,
                                     TRUE) |->
                       LinkOpen]
        IN  /\ SelectSeq(output, IsSectionMark) = expected
            /\ output[1] = "## Transcript"
            /\ (~settings.embedSummary /\ ~settings.embedOutline
                /\ ~settings.embedKeywords
                /\ ~settings.embedAdditionalFunctionality)
                  => SelectSeq(output, IsSectionMark) = <<"## Transcript">>

C13_Witness ==
    /\ Formatted
    /\ settings.embedSummary /\ settings.embedOutline
    /\ settings.embedKeywords /\ settings.embedAdditionalFunctionality
    /\ input.transcript.summary = INSUFFICIENT
    /\ input.transcript.heading_segments = <<>>
    /\ input.transcript.keywords # <<>>
    /\ SelectSeq(output, IsSectionMark)
          = <<"## Transcript", "## Keywords", LinkOpen>>


(***************************************************************************)
(* Line breaks at the end of a section                                     *)
(***************************************************************************)
\* the text ends in exactly one line break
EndsInOneNewline(text) ==
    /\ Len(text) >= 1
    /\ text[Len(text)] = NL
    /\ Len(text) >= 2 => text[Len(text) - 1] # NL

\* the section that starts at index i of the output, heading included
Section(i) == SubSeq(output, i, SectionEnd(i))

\* the upstream text the section under a heading is made of; the Outline
\* and a timestamped Transcript are rendered by the program, not upstream
Upstream(heading) ==
    LET t == input.transcript
    IN  IF heading = "## Transcript" THEN t.text
        ELSE IF heading = "## Summary" THEN t.summary
        ELSE Join([i \in 1..Len(t.keywords) |-> <<t.keywords[i]>>],
                  <<", ">>)

Rendered(heading) ==
    \/ heading = "## Outline"
    \/ heading = "## Transcript" /\ settings.timestamps

\* upstream text that is empty, or ends in a character other than a line
\* break, or ends in one line break that follows another character
EndsInAtMostOneNewline(text) ==
    \/ text = <<>>
    \/ text[Len(text)] # NL
    \/ Len(text) >= 2 /\ text[Len(text) - 1] # NL

(***************************************************************************)
(* C14.  In the output of formatSwiftinkResults every headed section ends  *)
(* with exactly one line break, so that no blank line separates two        *)
(* sections, for every upstream text: ending in no newline, in one, or in  *)
(* several.  (The deep link, which ends the output, is left aside.)        *)
(***************************************************************************)
C14_ExactlyOneLineBreak ==
    Formatted =>
        \A i \in 1..Len(output) :
            output[i] \in Headings => EndsInOneNewline(Section(i))

(***************************************************************************)
(* C14, amended.  Every headed section ends with at least one line break;  *)
(* it ends with exactly one if and only if it is rendered by the program   *)
(* or its upstream text is empty or ends in at most one newline that       *)
(* follows another character.  Upstream text made of newlines only, or     *)
(* ending in several newlines, leaves blank lines before the next section. *)
(***************************************************************************)
C14_NewlineOnlyAdded ==
    Formatted =>
        \A i \in 1..Len(output) :
            output[i] \in Headings =>
                /\ output[SectionEnd(i)] = NL
                /\ EndsInOneNewline(Section(i))
                      <=> \/ Rendered(output[i])
                          \/ EndsInAtMostOneNewline(Upstream(output[i]))

C14_Witness ==
    /\ Formatted
    /\ ~settings.timestamps
    /\ input.transcript.text = <<"a", NL, NL>>
    /\ settings.embedSummary
    /\ input.transcript.summary = <<"s">>
    /\ output = <<"## Transcript", NL, "a", NL, NL, "## Summary", NL, "s", NL>>


(***************************************************************************)
(* Buckets of segmentsToTimestampedString                                  *)
(***************************************************************************)
Bucketed == input.kind = "segments" /\ pc = "returned"

\* the segments (by index) whose start lies in [key, key + interval)
Members(key) ==
    {i \in 1..Len(input.segments) :
        /\ key <= input.segments[i].start
        /\ input.segments[i].start < key + input.interval}

\* the output holds the line head "start - end: " of bucket key
RenderedInOutput(key) ==
    LET formatToUse == AutoFormat(input.segments)
        head == RenderTime(groupedSegments[key].start, formatToUse,
                           timezoneOffset)
                \o <<" - ">>
                \o RenderTime(groupedSegments[key].end, formatToUse,
                              timezoneOffset)
                \o <<": ">>
    IN  \E p \in 1..Len(output) :
            /\ p + Len(head) - 1 <= Len(output)
            /\ SubSeq(output, p, p + Len(head) - 1) = head

(***************************************************************************)
(* C15.  segmentsToTimestampedString with interval I > 0: every segment is *)
(* in exactly one bucket; the key of its bucket is floor(start / I) * I    *)
(* and its start lies in [key, key + I); the rendered end of a bucket is   *)
(* at least the end of each of its members, and its rendered start is the  *)
(* start of the first member encountered.                                  *)
(***************************************************************************)
C15_Bucketing ==
    Bucketed =>
        LET segments == input.segments
            interval == input.interval
            keys == DOMAIN groupedSegments
        IN  /\ \A i \in 1..Len(segments) :
                  /\ Cardinality({k \in keys : i \in Members(k)}) = 1
                  /\ (segments[i].start \div interval) * interval \in keys
                  /\ i \in Members((segments[i].start \div interval)
                                      * interval)
            /\ \A k \in keys :
                  /\ k % interval = 0
                  /\ Members(k) # {}
                  /\ Len(groupedSegments[k].texts) = Cardinality(Members(k))
                  /\ \A i \in Members(k) :
                        groupedSegments[k].end >= segments[i].end
                  /\ LET first == CHOOSE i \in Members(k) :
                                      \A j \in Members(k) : i <= j
                     IN  groupedSegments[k].start = segments[first].start
                  /\ RenderedInOutput(k)

\* a bucket of two members in which the later member ends earlier and
\* starts earlier than the first
C15_Witness ==
    /\ Bucketed
    /\ input.interval = 3
    /\ Len(input.segments) = 3
    /\ input.segments[1].start = 2 /\ input.segments[1].end = 5
    /\ input.segments[2].start = 3
    /\ input.segments[3].start = 1 /\ input.segments[3].end = 2
    /\ DOMAIN groupedSegments = {0, 3}
    /\ groupedSegments[0].start = 2
    /\ groupedSegments[0].end = 5


(***************************************************************************)
(* C16.  Backend B polling always terminates: once polling has started,    *)
(* the job eventually reaches a terminal outcome and the timer is cleared, *)
(* whatever the remote service answers, poll requests that fail included.  *)
(***************************************************************************)
C16_PollingTerminates ==
    (IsSwiftink /\ poll = "active")
        ~> (poll = "cleared" /\ promise.state # "pending")


(***************************************************************************)
(* C17.  Backend B protocol order: the create-transcript request is issued *)
(* only after the upload has completed successfully; the first poll        *)
(* request is issued (and the timer set) only after the create-transcript  *)
(* request has returned successfully; if the create-transcript request     *)
(* fails, the job is rejected with that error and no poll is ever issued.  *)
(***************************************************************************)
C17_ProtocolOrder ==
    IsSwiftink =>
        /\ "createTranscript" \in issued =>
              /\ "upload" \in completed
              /\ "upload" \notin faults
        /\ ("poll" \in issued \/ poll # "unset" \/ inflight > 0) =>
              /\ "createTranscript" \in completed
              /\ "createTranscript" \notin faults
        /\ "createTranscript" \in faults =>
              /\ promise = Rejected("CreateError")
              /\ result = Rejected("CreateError")
              /\ "poll" \notin issued
              /\ poll = "unset"
              /\ inflight = 0
              /\ pc = "returned"

C17_Witness ==
    /\ IsSwiftink
    /\ "createTranscript" \in faults
    /\ "upload" \in completed
    /\ bytesUploaded = UploadChunks
    /\ promise = Rejected("CreateError")
    /\ "poll" \notin issued


C19_NoAttemptCap ==
    (/\ IsWhisperASR
     /\ intervalID # "unset"
     /\ queryCodes \subseteq {QUERY_WAITING}
     /\ faults \cap {"queryTransport", "queryMalformed"} = {})
        => /\ intervalID = "active"
           /\ clearCalls = 0
           /\ promise = Pending
           /\ result = Pending
           /\ settleCalls = 0
           /\ inflight < MaxInFlight => ENABLED QueryTick

\* at least two responses with code 11001 were handled, one is awaited, and
\* the timer can fire again
C19_Witness ==
    /\ IsWhisperASR
    /\ intervalID = "active"
    /\ queryCodes = {QUERY_WAITING}
    /\ faults = {}
    /\ lastQuery.response.code = QUERY_WAITING
    /\ ~lastQuery.flip
    /\ inflight = 1
    /\ promise = Pending
    /\ ENABLED QueryTick

(***************************************************************************)
(* C20.  In both backends the poll timer fires independently of earlier    *)
(* polls: as long as the timer has not been cleared, a tick issues a new   *)
(* poll request whether or not earlier poll requests have returned, so     *)
(* two or more poll requests of one job can be in flight at once.          *)
(***************************************************************************)
C20_TicksIndependent ==
    /\ (IsSwiftink /\ poll = "active" /\ inflight < MaxInFlight)
          => ENABLED PollTick
    /\ (IsWhisperASR /\ intervalID = "active" /\ inflight < MaxInFlight)
          => ENABLED QueryTick
    /\ overlapped => "poll" \in issued \/ "query" \in issued

C20_Witness ==
    /\ IsSwiftink
    /\ poll = "active"
    /\ inflight >= 2
    /\ overlapped
    /\ promise = Pending


(***************************************************************************)
(* C21.  Once a Backend B job has reached a terminal condition (promise    *)
(* settled, timer cleared) it has no further effect: the responses of      *)
(* polls still in flight change neither the transcript nor the attempt     *)
(* counter, create or update no notice, and call resolve / reject no more. *)
(***************************************************************************)
C21_NoEffectAfterTerminal ==
    [][(IsSwiftink /\ poll = "cleared" /\ promise.state # "pending")
          => UNCHANGED <<transcript, tries, promise, result, settleCalls,
                         lastSettle, clearCalls, noticesCreated,
                         transcriptionProgressNotice,
                         uploadProgressNotice>>]_vars

====
